---- MODULE Spec2Model ----
(***************************************************************************)
(* The proposal operator of dogsdogsdogs (operators/propose.rs):           *)
(* propose_then buffers prefix updates per capability in a stash, and      *)
(* once the frontier of the arrangement's stream has passed a buffered     *)
(* time it matches the update against the arrangement's trace through a    *)
(* cursor and emits the extensions.                                        *)
(*                                                                         *)
(* One step of Round is one invocation of the closure handed to            *)
(* binary_frontier (propose.rs:84-159); OnPrefix, OnFrontier and OnBatch   *)
(* are the rounds by what scheduled them.  Compact is the step of the      *)
(* arrangement the operator shares its trace with.                         *)
(***************************************************************************)
EXTENDS Integers, Sequences, FiniteSets, Bags, TLC

\* ------------------------------------------------------------------ bounds
MaxTime == 2        \* outer coordinate of a timestamp ranges over 0..MaxTime
MaxInner == 0       \* inner coordinate of a timestamp ranges over 0..MaxInner
MaxMsgs == 2        \* prefix updates delivered on input 1 in one behaviour
MaxUpdates == 2     \* updates the arrangement commits in one behaviour
MaxEvents == 3      \* prefix updates plus trace updates in one behaviour
MaxBatches == 2     \* batches input 2 hands to one round

\* ------------------------------------------------ timestamps and frontiers
\* G::Timestamp: Lattice.  A product timestamp, partially ordered.
Time == (0..MaxTime) \X (0..MaxInner)

Leq(s, t) == s[1] <= t[1] /\ s[2] <= t[2]

Max2(a, b) == IF a >= b THEN a ELSE b
Min2(a, b) == IF a <= b THEN a ELSE b

Join(s, t) == <<Max2(s[1], t[1]), Max2(s[2], t[2])>>

Bottom == <<0, 0>>

IsAntichain(F) == \A f \in F : \A g \in F : Leq(f, g) => f = g

Antichains == {F \in SUBSET Time : IsAntichain(F)}

\* Antichain::less_equal(time): some element of the frontier is <= time.
LessEqual(F, t) == \E f \in F : Leq(f, t)

\* PartialOrder on antichains: G is at or beyond F.
FrontierLeq(F, G) == \A g \in G : LessEqual(F, g)

\* ----------------------------------------------------------- the payloads
Prefix == 1..2
Key == 1..2
Val == 1..2
PrefixDiff == {-1, 0, 1}
TraceDiff == {-1, 1}

\* key_selector (logic2): the caller's pure key extraction.
KeySelector(p) == 3 - p

\* output_func: propose pairs the prefix with the value.
OutputFunc(p, v) == <<p, v>>

\* Option: the handle is Some or None; a cursor past the end yields Absent.
None == "None"
Some == "Some"
Absent == 0

VARIABLES
    frontier1,      \* input1.frontier(): frontier of the prefix stream
    frontier2,      \* input2.frontier: frontier of the arrangement's stream
    trace,          \* updates [k, v, t, d, st] the arrangement committed:
                    \* t is the update's time, st the time the trace stores
    advance,        \* frontier last passed to advance_by by this handle
    distinguish,    \* frontier last passed to distinguish_since
    propose_trace,  \* Some while the handle is held, None once released
    stash,          \* capability time -> buffered [p, t, d, id]
    delivered,      \* history: the prefix updates delivered so far
    matched,        \* history: how often each update was matched
    output,         \* history: bag of the updates given to the session
    lateOps,        \* history: trace operations made with the handle None
    ops,            \* history: the trace operations of the latest round, in
                    \* the order they were made
    pending         \* what has arrived and the operator has not yet been
                    \* scheduled for (message, frontier of input 1, batches)

vars == <<frontier1, frontier2, trace, advance, distinguish,
          propose_trace, stash, delivered, matched, output, lateOps, ops,
          pending>>

\* --------------------------------------------------------------- helpers
RECURSIVE SumD(_)
SumD(S) ==
    IF S = {} THEN 0
    ELSE LET x == CHOOSE y \in S : TRUE IN x.d + SumD(S \ {x})

RECURSIVE SortedSeq(_)
SortedSeq(S) ==
    IF S = {} THEN <<>>
    ELSE LET m == CHOOSE x \in S : \A y \in S : x <= y
         IN <<m>> \o SortedSeq(S \ {m})

\* Lattice::advance_by: the representative of t for readers at or beyond F.
AdvanceBy(t, F) ==
    IF F = {} THEN t
    ELSE LET js == {Join(t, f) : f \in F}
         IN <<CHOOSE a \in {j[1] : j \in js} : \A j \in js : a <= j[1],
              CHOOSE b \in {j[2] : j \in js} : \A j \in js : b <= j[2]>>

\* ------------------------------------------------------ the trace's cursor
\* trace.cursor() yields (cursor, storage).  The storage is the committed
\* updates, each with the time the trace stores for it.
Storage(ups) == [ups |-> ups]

StoredTime(u) == u.st

\* The keys and, per key, the values the cursor walks, in order.
CursorKeys(st) == SortedSeq({u.k : u \in st.ups})
CursorVals(st, k) == SortedSeq({u.v : u \in {w \in st.ups : w.k = k}})

\* The cursor starts at the first key and its first value.
NewCursor == [kpos |-> 1, vpos |-> 1]

RECURSIVE SeekPos(_, _, _)
SeekPos(st, pos, key) ==
    IF pos > Len(CursorKeys(st)) \/ CursorKeys(st)[pos] >= key THEN pos
    ELSE SeekPos(st, pos + 1, key)

\* cursor.seek_key: forward only; the value position is reset when the key
\* position moves and kept when it does not.
SeekKey(st, cur, key) ==
    LET np == SeekPos(st, cur.kpos, key)
    IN IF np = cur.kpos THEN cur ELSE [kpos |-> np, vpos |-> 1]

\* cursor.get_key
GetKey(st, cur) ==
    IF cur.kpos <= Len(CursorKeys(st)) THEN CursorKeys(st)[cur.kpos]
    ELSE Absent

\* cursor.get_val
GetVal(st, cur) ==
    LET vs == CursorVals(st, CursorKeys(st)[cur.kpos])
    IN IF cur.vpos <= Len(vs) THEN vs[cur.vpos] ELSE Absent

\* cursor.step_val
StepVal(cur) == [cur EXCEPT !.vpos = @ + 1]

\* cursor.rewind_vals
RewindVals(cur) == [cur EXCEPT !.vpos = 1]

\* A bug: the filter of line 131 left out, every stored time counted.
MapTimesCountAll(st, k, v, time) ==
    SumD({u \in st.ups : u.k = k /\ u.v = v})

\* cursor.map_times with the closure of line 131:
\*   count += d for every stored (t, d) with t.less_equal(time)
MapTimesCount(st, k, v, time) ==
    SumD({u \in st.ups :
            u.k = k /\ u.v = v /\ Leq(StoredTime(u), time)})

\* --------------------------------------------------- the closure, by line
\* Nothing arrived on input 1; nothing arrived on input 2.
NoMsg == [cap |-> <<>>, data |-> <<>>]
NoBatch == [sent |-> FALSE, upper |-> {}, ups |-> {}, uppers |-> <<>>]

\* Nothing has arrived since the operator last ran.
NoPending == [set |-> FALSE, msg |-> NoMsg, f1 |-> {}, bat |-> NoBatch]

\* lines 87-92: stash.entry(capability.retain()).or_insert(..).extend(data)
StashInsert(st, msg) ==
    IF msg = NoMsg THEN st
    ELSE IF msg.cap \in DOMAIN st
         THEN [st EXCEPT ![msg.cap] = @ \o msg.data]
         ELSE [c \in DOMAIN st \cup {msg.cap} |->
                  IF c = msg.cap THEN msg.data ELSE st[c]]

\* A bug: the guard of line 98 left out.
DistinguishGuardAlways(tr) == TRUE

\* line 98: if let Some(ref mut trace) = propose_trace
DistinguishGuard(tr) == tr = Some

\* A bug: the batches drained from the back (pop for drain(..)).
DistinguishCallsReversed(tr, bat) ==
    IF DistinguishGuard(tr)
    THEN [j \in 1..Len(bat.uppers) |-> bat.uppers[Len(bat.uppers) + 1 - j]]
    ELSE <<>>

\* lines 95-101: the frontiers passed to distinguish_since, one per drained
\* batch, in the order the batches were delivered.
DistinguishCalls(tr, bat) ==
    IF DistinguishGuard(tr) THEN bat.uppers ELSE <<>>

\* lines 95-102: the trace's distinguish_since frontier after the calls.
DistinguishSince(tr, ds, bat) ==
    LET calls == DistinguishCalls(tr, bat)
    IN IF calls = <<>> THEN ds ELSE calls[Len(calls)]

\* A bug: the test of line 110 waits for input 2 to be done.
BucketReadyWhenDone(f2, cap) == f2 = {}

\* A bug: the test of line 110 left out, every bucket processed.
BucketReadyAlways(f2, cap) == TRUE

\* line 110: the bucket is processed when its capability's time is closed.
BucketReady(f2, cap) == ~LessEqual(f2, cap)

\* A bug: the test of line 124 left out.
EntryReadyAlways(f2, e) == TRUE

\* line 124: the entry is matched when its own time is closed.
EntryReady(f2, e) == ~LessEqual(f2, e.t)

\* lines 115-119: stable sort of the bucket by extracted key.
RECURSIVE InsertByKey(_, _)
InsertByKey(sorted, e) ==
    IF sorted = <<>> THEN <<e>>
    ELSE LET last == sorted[Len(sorted)]
         IN IF KeySelector(last.p) <= KeySelector(e.p)
            THEN Append(sorted, e)
            ELSE Append(InsertByKey(SubSeq(sorted, 1, Len(sorted) - 1), e),
                        last)

RECURSIVE SortByKey(_)
SortByKey(es) ==
    IF es = <<>> THEN <<>>
    ELSE InsertByKey(SortByKey(SubSeq(es, 1, Len(es) - 1)), es[Len(es)])

\* A bug: the count given without the prefix's diff.
ProdCountOnly(count, diff) == count

\* line 132: let prod = count * diff.clone();
Prod(count, diff) == count * diff

\* A bug: the test of line 133 left out.
GiveGuardAlways(prod) == TRUE

\* line 133: if !prod.is_zero()
GiveGuard(prod) == prod # 0

\* A bug: the update given at the capability's time.
GivenTimeCap(cap, e) == cap

\* line 134: the time the update is given at.
GivenTime(cap, e) == e.t

\* line 134: session.give((output_func(prefix, value), time.clone(), prod))
Given(cap, e, v, prod) ==
    [o |-> OutputFunc(e.p, v), t |-> GivenTime(cap, e), d |-> prod,
     id |-> e.id, cap |-> cap]

\* lines 129-137: while let Some(value) = cursor.get_val(..) { .. step_val }
RECURSIVE ValLoop(_, _, _, _, _)
ValLoop(st, cur, cap, e, out) ==
    LET v == GetVal(st, cur) IN
    IF v = Absent THEN [cur |-> cur, out |-> out]
    ELSE LET count == MapTimesCount(st, GetKey(st, cur), v, e.t)
             prod == Prod(count, e.d)
         IN ValLoop(st, StepVal(cur), cap, e,
                    IF GiveGuard(prod)
                    THEN Append(out, Given(cap, e, v, prod))
                    ELSE out)

\* A bug: line 138 left out, the cursor left past the key's last value.
AfterValsNoRewind(cur) == cur

\* line 138: cursor.rewind_vals after the values of a matched key.
AfterVals(cur) == RewindVals(cur)

\* A bug: line 140 left out.
ConsumeNot(e) == e

\* line 140: *diff = Tr::R::zero();
Consume(e) == [e EXCEPT !.d = 0]

\* lines 125-140: one closed entry against the cursor.
MatchEntry(st, cur, cap, e) ==
    LET key1 == KeySelector(e.p)
        c1 == SeekKey(st, cur, key1)
    IN IF GetKey(st, c1) = key1
       THEN LET r == ValLoop(st, c1, cap, e, <<>>)
            IN [cur |-> AfterVals(r.cur), out |-> r.out]
       ELSE [cur |-> c1, out |-> <<>>]

\* lines 123-142: for &mut (prefix, time, diff) in prefixes.iter_mut()
RECURSIVE EntryLoop(_, _, _, _, _, _)
EntryLoop(st, f2, cap, es, i, acc) ==
    IF i > Len(es) THEN acc
    ELSE IF EntryReady(f2, es[i])
         THEN LET r == MatchEntry(st, acc.cur, cap, es[i])
              IN EntryLoop(st, f2, cap, es, i + 1,
                     [cur |-> r.cur,
                      es |-> Append(acc.es, Consume(es[i])),
                      out |-> acc.out \o r.out,
                      ids |-> Append(acc.ids, es[i].id)])
         ELSE EntryLoop(st, f2, cap, es, i + 1,
                     [acc EXCEPT !.es = Append(@, es[i])])

\* A bug: line 144 left out.
RetainAll(es) == es

\* line 144: prefixes.retain(|ptd| !ptd.2.is_zero());
NonZero(e) == e.d # 0
Retain(es) == SelectSeq(es, NonZero)

\* lines 106-146: one bucket of the stash in one round.
BucketResult(r) ==
    [es |-> Retain(r.es), out |-> r.out, ids |-> r.ids, cursor |-> TRUE]

Bucket(st, f2, cap, es) ==
    IF BucketReady(f2, cap)
    THEN CHOOSE b \in {BucketResult(r) :
            r \in {EntryLoop(st, f2, cap, SortByKey(es), 1,
                      [cur |-> NewCursor, es |-> <<>>, out |-> <<>>,
                       ids |-> <<>>])}} : TRUE
    ELSE [es |-> es, out |-> <<>>, ids |-> <<>>, cursor |-> FALSE]

\* line 104: the buckets are touched only while the trace is held.  The
\* buckets are independent of one another (each has its own cursor and its
\* own session), so the order the HashMap yields them in has no effect.
Buckets(tr, st, f2, stsh) ==
    [c \in DOMAIN stsh |->
        IF tr = Some THEN Bucket(st, f2, c, stsh[c])
        ELSE [es |-> stsh[c], out |-> <<>>, ids |-> <<>>, cursor |-> FALSE]]

\* A bug: line 150 left out.
StashRetainAll(stsh) == stsh

\* line 150: stash.retain(|_, prefixes| !prefixes.is_empty());
StashRetain(stsh) ==
    [c \in {x \in DOMAIN stsh : stsh[x] # <<>>} |-> stsh[c]]

\* line 153: propose_trace.as_mut().map(|trace| trace.advance_by(frontier))
AdvanceByCall(tr, adv, f1) == IF tr = Some THEN f1 ELSE adv

\* A bug: the test of line 155 with || for &&.
ReleaseTraceEither(tr, f1, stsh) ==
    IF f1 = {} \/ DOMAIN stsh = {} THEN None ELSE tr

\* A bug: the branches of the test of line 155 swapped.
ReleaseTraceSwapped(tr, f1, stsh) ==
    IF f1 = {} /\ DOMAIN stsh = {} THEN Some ELSE None

\* lines 155-157: release the trace once input 1 is done and nothing is held.
ReleaseTrace(tr, f1, stsh) ==
    IF f1 = {} /\ DOMAIN stsh = {} THEN None ELSE tr

\* The trace operations a round performs.
OpsOf(tr, bat, res) ==
    (IF bat.sent /\ DistinguishGuard(tr)
     THEN {"distinguish_since"} ELSE {})
    \cup (IF \E c \in DOMAIN res : res[c].cursor THEN {"cursor"} ELSE {})
    \cup (IF tr = Some THEN {"advance_by"} ELSE {})

\* ------------------------------------------------------------- histories
SeqToBag(s) ==
    LET R == {s[i] : i \in 1..Len(s)}
    IN [r \in R |-> Cardinality({i \in 1..Len(s) : s[i] = r})]

RECURSIVE ConcatAll(_, _)
ConcatAll(f, S) ==
    IF S = {} THEN <<>>
    ELSE LET c == CHOOSE x \in S : TRUE IN f[c] \o ConcatAll(f, S \ {c})

\* The trace operations of one round in the order the closure makes them:
\* distinguish_since per drained batch (lines 95-102), a cursor per
\* processed bucket (line 121), advance_by (line 153).
OpsSeq(tr, bat, res, f1) ==
    [j \in 1..Len(DistinguishCalls(tr, bat)) |->
        [op |-> "distinguish_since", f |-> DistinguishCalls(tr, bat)[j]]]
    \o ConcatAll([c \in DOMAIN res |->
                    IF res[c].cursor
                    THEN <<[op |-> "cursor", f |-> {c}]>> ELSE <<>>],
                 DOMAIN res)
    \o (IF tr = Some THEN <<[op |-> "advance_by", f |-> f1]>> ELSE <<>>)

\* ------------------------------------------------------------------ Init
Init ==
    /\ frontier1 = {Bottom}
    /\ frontier2 = {Bottom}
    /\ trace = {}
    /\ advance = {Bottom}
    /\ distinguish = {Bottom}
    /\ propose_trace = Some
    /\ stash = <<>>
    /\ delivered = <<>>
    /\ matched = <<>>
    /\ output = EmptyBag
    /\ lateOps = {}
    /\ ops = <<>>
    /\ pending = NoPending

\* ---------------------------------------------------------------- inputs
Events == Len(delivered) + Cardinality(trace)

\* What input 1 can deliver to a round: one update, stamped with the next
\* identifier, under a capability that the input's frontier has not passed
\* and that is not after the update's time.
Messages ==
    IF Len(delivered) >= MaxMsgs \/ Events >= MaxEvents THEN {}
    ELSE {[cap |-> x[1],
           data |-> <<[p |-> x[3], t |-> x[2], d |-> x[4],
                       id |-> Len(delivered) + 1]>>] :
            x \in {y \in Time \X Time \X Prefix \X PrefixDiff :
                     LessEqual(frontier1, y[1]) /\ Leq(y[1], y[2])}}

\* The frontiers input 1 can move to.
Frontiers1 ==
    {F \in Antichains : FrontierLeq(frontier1, F) /\ F # frontier1}

\* The multiplicity the arrangement holds for (k, v) as of time t.
Accumulated(ups, k, v, t) ==
    SumD({u \in ups : u.k = k /\ u.v = v /\ Leq(u.t, t)})

\* The updates the arrangement may commit in the batch [frontier2, u) on
\* top of ups: the first update of a value is an insertion, a retraction
\* follows an insertion, and the values of a key are numbered in order of
\* appearance.  The trace stores a new update at its own time.
BatchUpdates(ups, u) ==
    {[k |-> x.k, v |-> x.v, t |-> x.t, d |-> x.d, st |-> x.t] :
       x \in {y \in [k : Key, v : Val, t : Time, d : TraceDiff] :
          /\ LessEqual(frontier2, y.t) /\ ~LessEqual(u, y.t)
          /\ \A w \in ups : ~(w.k = y.k /\ w.v = y.v /\ w.t = y.t)
          /\ y.d = -1 => Accumulated(ups, y.k, y.v, y.t) >= 1
          /\ y.v > 1 => \E w \in ups : w.k = y.k /\ w.v = y.v - 1}}

\* The contents a batch [frontier2, u) can have: no update, one, or two.
BatchContents(u) ==
    LET room == Min2(MaxUpdates - Cardinality(trace), MaxEvents - Events)
        one == IF room >= 1 THEN BatchUpdates(trace, u) ELSE {}
        two == IF room >= 2
               THEN UNION {{{x, y} : y \in BatchUpdates(trace \cup {x}, u)} :
                              x \in one}
               ELSE {}
    IN {{}} \cup {{x} : x \in one} \cup two

\* The uppers of at most n batches delivered in a row, each beyond the one
\* before, from the frontier lo to the upper u.
RECURSIVE Uppers(_, _, _)
Uppers(lo, u, n) ==
    IF n = 0 THEN {}
    ELSE {<<u>>} \cup
         UNION {{<<m>> \o c : c \in Uppers(m, u, n - 1)} :
                  m \in {F \in Antichains :
                           /\ FrontierLeq(lo, F) /\ F # lo
                           /\ FrontierLeq(F, u) /\ F # u}}

\* What input 2 can deliver to a round: batches that move the arrangement's
\* upper bound forward to u, with the updates they hold between them.
Batches ==
    UNION {{[sent |-> TRUE, upper |-> u, ups |-> c, uppers |-> us] :
              c \in BatchContents(u), us \in Uppers(frontier2, u, MaxBatches)} :
             u \in {F \in Antichains :
                      FrontierLeq(frontier2, F) /\ F # frontier2}}

\* --------------------------------------------------------------- actions
\* One invocation of the operator's closure (lines 84-159).  It is handed
\* what arrived on input 1 (msg) with that input's frontier (f1), and the
\* batch that arrived on input 2 (bat), which the arrangement committed to
\* the shared trace before sending it.
Round(msg, f1, bat) ==
    \E f2 \in {IF bat.sent THEN bat.upper ELSE frontier2} :
    \E tr1 \in {trace \cup bat.ups} :
    \E res \in {Buckets(propose_trace, Storage(tr1), f2,
                        StashInsert(stash, msg))} :
    \E st2 \in {StashRetain([c \in DOMAIN res |-> res[c].es])} :
    \E ids \in {ConcatAll([c \in DOMAIN res |-> res[c].ids], DOMAIN res)} :
       /\ frontier1' = f1
       /\ frontier2' = f2
       /\ trace' = tr1
       /\ distinguish' = DistinguishSince(propose_trace, distinguish, bat)
       /\ stash' = st2
       /\ delivered' = delivered \o msg.data
       /\ matched' = [i \in 1..Len(delivered') |->
                        (IF i <= Len(matched) THEN matched[i] ELSE 0)
                        + Cardinality({j \in 1..Len(ids) : ids[j] = i})]
       /\ output' = output (+) SeqToBag(
                        ConcatAll([c \in DOMAIN res |-> res[c].out],
                                  DOMAIN res))
       /\ advance' = AdvanceByCall(propose_trace, advance, f1)
       /\ propose_trace' = ReleaseTrace(propose_trace, f1, st2)
       /\ lateOps' = IF propose_trace = None
                     THEN lateOps \cup OpsOf(propose_trace, bat, res)
                     ELSE lateOps
       /\ ops' = OpsSeq(propose_trace, bat, res, f1)

\* The trace merges the batches it holds and advances the times it stores
\* for their updates as far as the frontier handed to advance_by permits.
Compacted(ups, adv) == {[u EXCEPT !.st = AdvanceBy(u.st, adv)] : u \in ups}

Compact ==
    /\ propose_trace = Some
    /\ trace' = Compacted(trace, advance)
    /\ trace' # trace
    /\ UNCHANGED <<frontier1, frontier2, advance, distinguish,
                   propose_trace, stash, delivered, matched, output,
                   lateOps, ops, pending>>

\* A round is scheduled because a prefix update arrived, because the
\* frontier of input 1 moved, or because the arrangement sent a batch.  Here
\* the operator runs as soon as the input arrives.
OnPrefix ==
    /\ pending = NoPending
    /\ \E msg \in Messages : Round(msg, frontier1, NoBatch)
    /\ UNCHANGED pending

OnFrontier ==
    /\ pending = NoPending
    /\ \E f1 \in Frontiers1 : Round(NoMsg, f1, NoBatch)
    /\ UNCHANGED pending

OnBatch ==
    /\ pending = NoPending
    /\ \E bat \in Batches : Round(NoMsg, frontier1, bat)
    /\ UNCHANGED pending

Next == OnPrefix \/ OnFrontier \/ OnBatch \/ Compact

Spec == Init /\ [][Next]_vars

\* ---------------------------------------------------- scheduled operator
\* The input arrives in one step and the operator is scheduled in a later
\* one: between the two the frontiers the operator will see have moved and
\* the operator has not yet run.  The inputs are those of Spec with
\* prefix diffs 0 and 1 and with single batches of at most one insertion,
\* for the key of the first prefix.
LiveMessages ==
    {m \in Messages : m.data[1].d \in {0, 1}}

LiveBatches ==
    {b \in Batches :
        /\ Len(b.uppers) = 1
        /\ Cardinality(b.ups) <= 1
        /\ \A u \in b.ups : u.k = KeySelector(1) /\ u.v = 1 /\ u.d = 1}

ArrivePrefix ==
    /\ pending = NoPending
    /\ \E msg \in LiveMessages :
          pending' = [set |-> TRUE, msg |-> msg, f1 |-> frontier1,
                      bat |-> NoBatch]
    /\ UNCHANGED <<frontier1, frontier2, trace, advance, distinguish,
                   propose_trace, stash, delivered, matched, output,
                   lateOps, ops>>

ArriveFrontier ==
    /\ pending = NoPending
    /\ \E f1 \in Frontiers1 :
          pending' = [set |-> TRUE, msg |-> NoMsg, f1 |-> f1,
                      bat |-> NoBatch]
    /\ UNCHANGED <<frontier1, frontier2, trace, advance, distinguish,
                   propose_trace, stash, delivered, matched, output,
                   lateOps, ops>>

ArriveBatch ==
    /\ pending = NoPending
    /\ \E bat \in LiveBatches :
          pending' = [set |-> TRUE, msg |-> NoMsg, f1 |-> frontier1,
                      bat |-> bat]
    /\ UNCHANGED <<frontier1, frontier2, trace, advance, distinguish,
                   propose_trace, stash, delivered, matched, output,
                   lateOps, ops>>

\* The scheduler invokes the operator on what has arrived.
Run ==
    /\ pending.set
    /\ Round(pending.msg, pending.f1, pending.bat)
    /\ pending' = NoPending

LiveNext == ArrivePrefix \/ ArriveFrontier \/ ArriveBatch \/ Run \/ Compact

\* Run as seen on pending.  Run is enabled exactly when something is
\* pending (Round is defined for every input), and the steps of LiveNext
\* that clear pending are the steps of Run.
Scheduled == pending.set /\ pending' = NoPending

\* The operator is invoked again after every input or frontier change: weak
\* fairness of Run, stated on Scheduled.
LiveSpec == Init /\ [][LiveNext]_vars /\ WF_pending(Scheduled)

\* ============================================================== the claims
Ids == 1..Len(delivered)

InStashOf(stsh, i) ==
    \E c \in DOMAIN stsh : \E j \in 1..Len(stsh[c]) : stsh[c][j].id = i

InStash(i) == InStashOf(stash, i)

Emitted == BagToSet(output)

\* The sum of the diffs of the updates of S, each counted as often as it
\* was given.
RECURSIVE SumOut(_, _)
SumOut(out, S) ==
    IF S = {} THEN 0
    ELSE LET r == CHOOSE x \in S : TRUE
         IN r.d * CopiesIn(r, out) + SumOut(out, S \ {r})

\* multiplicity(Prefix, T): the sum of the diffs of p's updates up to T.
RECURSIVE PrefixMult(_, _, _)
PrefixMult(p, T, i) ==
    IF i = 0 THEN 0
    ELSE (IF delivered[i].p = p /\ Leq(delivered[i].t, T)
          THEN delivered[i].d ELSE 0) + PrefixMult(p, T, i - 1)

\* Every time up to T is closed on both inputs and no update at such a time
\* is left in the stash.
Settled(T) ==
    /\ ~LessEqual(frontier1, T)
    /\ ~LessEqual(frontier2, T)
    /\ \A i \in Ids : InStash(i) => ~Leq(delivered[i].t, T)

\* C1. Join correctness: once every time up to T is closed and the rounds
\* have run, the diffs emitted for the output (p, v) at times up to T sum to
\* multiplicity(p, T) * multiplicity(key(p) -> v, T).  Stated for the times T
\* that carry every update of p up to T, where that product is also the sum
\* over p's updates of diff * multiplicity as of the update's own time.
C1_JoinCorrectness ==
    \A T \in Time : \A p \in Prefix : \A v \in Val :
        (/\ Settled(T)
         /\ \A i \in Ids :
               (delivered[i].p = p /\ Leq(delivered[i].t, T))
                  => delivered[i].t = T)
        => SumOut(output, {r \in Emitted :
                              r.o = OutputFunc(p, v) /\ Leq(r.t, T)})
           = PrefixMult(p, T, Len(delivered))
             * Accumulated(trace, KeySelector(p), v, T)

\* C2. No early emission: every update the operator has emitted is at a
\* time, and under a capability whose time, the frontier of input 2 is not
\* less-or-equal.
C2_NoEarlyEmission ==
    \A r \in Emitted :
        ~LessEqual(frontier2, r.t) /\ ~LessEqual(frontier2, r.cap)

\* An update was emitted under a capability earlier than its own time while
\* input 2 is still open.
C2_Witness ==
    \E r \in Emitted : r.cap # r.t /\ frontier2 # {}

\* C3 as stated. Exactly once: every update is matched at most once, is in
\* the stash exactly as long as it has not been matched, and is never dropped
\* without having been matched.
C3_ExactlyOnce ==
    \A i \in Ids :
        /\ matched[i] <= 1
        /\ InStash(i) => matched[i] = 0
        /\ ~InStash(i) => matched[i] = 1

\* C3 as amended. Exactly once for the updates with a nonzero diff: matched
\* at most once, in the stash exactly as long as not matched, every output
\* given once and only for a matched update; an update with diff zero is
\* matched at most once and may leave the stash unmatched.
C3_ExactlyOnceNonZero ==
    /\ \A i \in Ids :
        /\ matched[i] <= 1
        /\ InStash(i) => matched[i] = 0
        /\ (~InStash(i) /\ delivered[i].d # 0) => matched[i] = 1
    /\ \A r \in Emitted : CopiesIn(r, output) = 1 /\ matched[r.id] = 1

\* An update was matched, gave output and left the stash while another is
\* still buffered.
C3_Witness ==
    \E i \in Ids : \E j \in Ids :
        /\ matched[i] = 1 /\ ~InStash(i) /\ \E r \in Emitted : r.id = i
        /\ InStash(j)

\* C4. Every emitted update carries the time of the prefix update it was
\* derived from.
C4_EmittedAtEntryTime ==
    \A r \in Emitted : r.t = delivered[r.id].t

\* An update buffered under an earlier capability has given output.
C4_Witness ==
    \E r \in Emitted : r.cap # delivered[r.id].t

\* C5. Termination: a round that ends with input 1's frontier empty and the
\* stash empty leaves the trace released, and from a state with the trace
\* released no step emits, performs a trace operation or takes the trace up
\* again.
C5_Termination ==
    [][/\ (frontier1' = {} /\ DOMAIN stash' = {}) => propose_trace' = None
       /\ propose_trace = None =>
            /\ propose_trace' = None
            /\ output' = output
            /\ lateOps' = {}
            /\ distinguish' = distinguish
            /\ advance' = advance]_vars

\* A batch arrived after the release and distinguish_since was not called.
C5_Witness ==
    propose_trace = None /\ frontier2 # distinguish /\ output # EmptyBag

\* C6. No emitted update carries a zero diff.
C6_NoZeroOutput ==
    \A r \in Emitted : r.d # 0

\* An update was matched against a key the trace held at its time and
\* nothing was emitted for it: the product was zero.
C6_Witness ==
    \E i \in Ids :
        /\ matched[i] = 1
        /\ \E u \in trace :
              u.k = KeySelector(delivered[i].p) /\ Leq(u.t, delivered[i].t)
        /\ ~\E r \in Emitted : r.id = i

\* C7 as stated. No bucket of the stash holds an update with diff zero.
C7_StashNoZero ==
    \A c \in DOMAIN stash : \A j \in 1..Len(stash[c]) : stash[c][j].d # 0

\* C7 as amended. No bucket whose capability's time is closed (a processed
\* bucket) holds an update with diff zero; every buffered update has the diff
\* it was delivered with, so a deferred bucket holds a zero diff exactly
\* where one was delivered.
C7_ProcessedNoZero ==
    \A c \in DOMAIN stash : \A j \in 1..Len(stash[c]) :
        /\ stash[c][j] = delivered[stash[c][j].id]
        /\ ~LessEqual(frontier2, c) => stash[c][j].d # 0

\* A processed bucket still holds an update while an update of diff zero
\* has been pruned.
C7_Witness ==
    /\ \E c \in DOMAIN stash : ~LessEqual(frontier2, c)
    /\ \E i \in Ids : delivered[i].d = 0 /\ ~InStash(i)

\* An update i and its retraction j, delivered later: same prefix, same
\* time.
Retracts(i, j) ==
    /\ i < j
    /\ delivered[i].p = delivered[j].p
    /\ delivered[i].t = delivered[j].t
    /\ delivered[i].d = 1
    /\ delivered[j].d = -1

BothBuffered(i, j) == Retracts(i, j) /\ InStash(i) /\ InStash(j)

\* C8 as stated. An update and its retraction that are both buffered have
\* cancelled: no step emits anything for either of them.
C8_RetractionSilent ==
    [][\A i \in Ids : \A j \in Ids :
          BothBuffered(i, j) =>
             ~\E r \in BagToSet(output') : r.id \in {i, j}]_vars

\* C8 as amended. While an update and its retraction are both buffered, a
\* step either leaves both buffered with their diffs, or matches both and
\* emits for them, per value, updates whose diffs sum to zero.
C8_RetractionCancelsInSum ==
    [][\A i \in Ids : \A j \in Ids :
          BothBuffered(i, j) =>
            \/ /\ InStashOf(stash', i) /\ InStashOf(stash', j)
               /\ ~\E r \in BagToSet(output') : r.id \in {i, j}
            \/ /\ matched'[i] = 1 /\ matched'[j] = 1
               /\ \A v \in Val :
                    SumOut(output',
                           {r \in BagToSet(output') :
                               r.id \in {i, j}
                               /\ r.o = OutputFunc(delivered[i].p, v)}) = 0
               /\ \A r \in BagToSet(output') :
                    r.id \in {i, j} => r.t = delivered[i].t]_vars

\* An update and its retraction were matched and each gave output.
C8_Witness ==
    \E i \in Ids : \E j \in Ids :
        /\ Retracts(i, j)
        /\ \E r \in Emitted : r.id = i
        /\ \E r \in Emitted : r.id = j

\* The output of the run that is fed the same batches first and then the
\* same prefix updates, each matched in the round it arrives in.
\* The trace before any compaction.
Uncompacted == {[u EXCEPT !.st = u.t] : u \in trace}

RECURSIVE ReferenceOutput(_)
ReferenceOutput(i) ==
    IF i = 0 THEN EmptyBag
    ELSE ReferenceOutput(i - 1) (+)
         SeqToBag(MatchEntry(Storage(Uncompacted), NewCursor,
                             delivered[i].t, delivered[i]).out)

Accumulate(out, o, t) ==
    SumOut(out, {r \in BagToSet(out) : r.o = o /\ r.t = t})

\* C9. Determinism: when both inputs are closed and the stash is empty, the
\* output accumulated per (output, time) is that of every other run fed the
\* same prefix updates and the same batches; stated against the run that
\* receives the batches first.
C9_Determinism ==
    (frontier1 = {} /\ frontier2 = {} /\ DOMAIN stash = {}) =>
        \A p \in Prefix : \A v \in Val : \A t \in Time :
            Accumulate(output, OutputFunc(p, v), t)
            = Accumulate(ReferenceOutput(Len(delivered)),
                         OutputFunc(p, v), t)

\* The operator's phase: Active 0, Draining 1, Terminated 2.
Phase ==
    IF propose_trace = None THEN 2
    ELSE IF frontier1 = {} THEN 1 ELSE 0

\* C10. The phase never goes back: not from Terminated to Draining or
\* Active, not from Draining to Active; a released trace stays released.
C10_PhaseMonotone ==
    [][Phase' >= Phase /\ (propose_trace = None => propose_trace' = None)]_vars

\* The operator is terminated after having matched an update, and a batch
\* has arrived since the release.
C10_Witness ==
    /\ Phase = 2
    /\ frontier2 # distinguish
    /\ \E i \in Ids : matched[i] = 1

\* C11. Compaction never overtakes buffered work: while the trace is held,
\* the frontier last handed to advance_by is less-or-equal the time of every
\* update still in the stash.
C11_CompactionBehindStash ==
    propose_trace = Some =>
        \A i \in Ids : InStash(i) => LessEqual(advance, delivered[i].t)

\* The update i is matched by the step.
MatchedNow(i) ==
    matched'[i] = 1 /\ (i > Len(matched) \/ matched[i] = 0)

\* The sum of the diffs the trace stores for (k, v) at stored times <= t.
StoredCount(ups, k, v, t) ==
    SumD({u \in ups : u.k = k /\ u.v = v /\ Leq(u.st, t)})

\* C12. Per-entry contribution: a step that matches the update (p, t, d)
\* gives, for every value v, the one update (compose(p, v), t, c * d) with c
\* the sum of the diffs the trace stores for (key(p), v) at stored times
\* <= t, and gives nothing for v when c * d is zero (so nothing at all when
\* the key is absent).
C12_PerEntryContribution ==
    [][\A i \in 1..Len(delivered') :
          MatchedNow(i) =>
            /\ \A r \in BagToSet(output') :
                  r.id = i => \E v \in Val : r.o = OutputFunc(delivered'[i].p, v)
            /\ \A v \in Val :
                  LET e == delivered'[i]
                      c == StoredCount(trace', KeySelector(e.p), v, e.t)
                      given == {r \in BagToSet(output') :
                                  r.id = i /\ r.o = OutputFunc(e.p, v)}
                  IN IF c * e.d = 0 THEN given = {}
                     ELSE \E r \in given :
                            /\ given = {r}
                            /\ CopiesIn(r, output') = 1
                            /\ r.t = e.t
                            /\ r.d = c * e.d]_vars

\* An update was matched and gave output for a value of which the trace held
\* a further update at a stored time not <= the update's time: the diff given
\* is not the prefix's diff times the value's whole multiplicity.
C12_Witness ==
    \E r \in Emitted :
        /\ matched[r.id] = 1
        /\ \E u \in trace :
              /\ u.k = KeySelector(delivered[r.id].p)
              /\ OutputFunc(delivered[r.id].p, u.v) = r.o
              /\ ~Leq(u.st, r.t)
        /\ r.d # delivered[r.id].d
                 * SumD({u \in trace : u.k = KeySelector(delivered[r.id].p)
                                       /\ OutputFunc(delivered[r.id].p, u.v) = r.o})

\* The bucket held under the capability time c, empty if there is none.
BucketOf(stsh, c) == IF c \in DOMAIN stsh THEN stsh[c] ELSE <<>>

\* The updates given under the capability time c, as a bag.
GivenUnder(out, c) ==
    [r \in {x \in BagToSet(out) : x.cap = c} |-> CopiesIn(r, out)]

\* C13. Deferral leaves a bucket unchanged: in a step that ends with input
\* 2's frontier less-or-equal a capability's time, the bucket under that
\* capability is what it was, followed by what the step delivered into it;
\* a capability retained before stays retained, and nothing is given under
\* it.
C13_DeferralFrame ==
    [][\A c \in Time :
          LessEqual(frontier2', c) =>
            LET old == BucketOf(stash, c)
                new == BucketOf(stash', c)
            IN /\ c \in DOMAIN stash => c \in DOMAIN stash'
               /\ Len(new) >= Len(old)
               /\ SubSeq(new, 1, Len(old)) = old
               /\ \A j \in (Len(old) + 1)..Len(new) :
                     /\ new[j].id > Len(delivered)
                     /\ new[j] = delivered'[new[j].id]
               /\ GivenUnder(output', c) = GivenUnder(output, c)]_vars

\* A deferred bucket holds two updates, in delivery order and not in key
\* order: the round that delivered the second deferred the bucket that held
\* the first, and did not sort it.
C13_Witness ==
    \E c \in DOMAIN stash :
        /\ LessEqual(frontier2, c)
        /\ Len(stash[c]) >= 2
        /\ KeySelector(stash[c][1].p) > KeySelector(stash[c][2].p)

\* The capability time the update i is buffered under, and the entry held.
CapOf(stsh, i) ==
    CHOOSE c \in DOMAIN stsh : \E j \in 1..Len(stsh[c]) : stsh[c][j].id = i

StashedAs(stsh, i) ==
    LET c == CapOf(stsh, i)
    IN CHOOSE e \in {stsh[c][j] : j \in 1..Len(stsh[c])} : e.id = i

\* The update i is buffered once the step has drained input 1.
Pending(i) == InStash(i) \/ i > Len(delivered)

\* The step processes the bucket of the update i: its capability's time is
\* closed.  (An update the step delivers is taken either way: in a deferred
\* bucket it stays as well.)
InProcessedBucket(i) ==
    /\ propose_trace = Some
    /\ InStash(i) => ~LessEqual(frontier2', CapOf(stash, i))

\* The step leaves the update i as it is: in the stash, under the same
\* capability, with its prefix, time and diff, not matched, nothing given.
Stays(i) ==
    /\ InStashOf(stash', i)
    /\ InStash(i) => CapOf(stash', i) = CapOf(stash, i)
    /\ StashedAs(stash', i) = delivered'[i]
    /\ matched'[i] = 0
    /\ ~\E r \in BagToSet(output') : r.id = i

\* C14 as stated. Partial processing: in a processed bucket every update
\* whose own time is not closed stays as it is, and every update whose time
\* is closed is matched and removed.
C14_PartialProcessing ==
    [][\A i \in 1..Len(delivered') :
          (Pending(i) /\ InProcessedBucket(i)) =>
             IF LessEqual(frontier2', delivered'[i].t)
             THEN Stays(i)
             ELSE MatchedNow(i) /\ ~InStashOf(stash', i)]_vars

\* C14 as amended. In a processed bucket every update with a nonzero diff
\* whose own time is not closed stays as it is; an update with diff zero
\* whose time is not closed is not matched and gives nothing, and is removed
\* (it stays only where the step delivered it into a deferred bucket); every
\* update whose time is closed is matched and removed.
C14_PartialProcessingNonZero ==
    [][\A i \in 1..Len(delivered') :
          (Pending(i) /\ InProcessedBucket(i)) =>
             IF LessEqual(frontier2', delivered'[i].t)
             THEN IF delivered'[i].d # 0
                  THEN Stays(i)
                  ELSE /\ matched'[i] = 0
                       /\ ~\E r \in BagToSet(output') : r.id = i
                       /\ InStash(i) => ~InStashOf(stash', i)
                       /\ InStashOf(stash', i) => Stays(i)
             ELSE MatchedNow(i) /\ ~InStashOf(stash', i)]_vars

\* A bucket was processed in part: an update given under a capability was
\* delivered after an update that is still buffered under that capability;
\* the capability's time is closed, the buffered update's own time is not.
C14_Witness ==
    \E r \in Emitted : \E j \in Ids :
        /\ j < r.id
        /\ InStash(j)
        /\ CapOf(stash, j) = r.cap
        /\ ~LessEqual(frontier2, r.cap)
        /\ LessEqual(frontier2, delivered[j].t)

\* C15. Deferral loses no ready work: in a bucket whose updates are at times
\* greater-or-equal the capability's time, if the test of the bucket fails
\* then no update of the bucket is at a closed time.
C15_DeferredNotReady ==
    \A c \in DOMAIN stash :
        (/\ \A j \in 1..Len(stash[c]) : Leq(c, stash[c][j].t)
         /\ ~BucketReady(frontier2, c))
        => \A j \in 1..Len(stash[c]) : LessEqual(frontier2, stash[c][j].t)

\* Input 2's frontier has moved and a bucket is still deferred that holds an
\* update at a time after its capability's.
C15_Witness ==
    /\ frontier2 # {Bottom}
    /\ \E c \in DOMAIN stash :
          /\ ~BucketReady(frontier2, c)
          /\ \E j \in 1..Len(stash[c]) :
                Leq(c, stash[c][j].t) /\ stash[c][j].t # c

\* C16. No bucket of the stash is empty: a capability is retained exactly
\* while an update buffered under it has not been matched.
C16_NoEmptyBucket ==
    \A c \in DOMAIN stash :
        /\ stash[c] # <<>>
        /\ \A j \in 1..Len(stash[c]) : matched[stash[c][j].id] = 0

\* A capability was released in the round that consumed its bucket, while
\* another capability is still retained.
C16_Witness ==
    /\ DOMAIN stash # {}
    /\ \E r \in Emitted : r.cap \notin DOMAIN stash /\ matched[r.id] = 1

\* C17. No premature release of the trace: whenever the handle is None,
\* input 1's frontier is empty and the stash is empty, and every delivered
\* update with a nonzero diff has been matched.
C17_NoPrematureRelease ==
    propose_trace = None =>
        /\ frontier1 = {}
        /\ DOMAIN stash = {}
        /\ \A i \in Ids : delivered[i].d # 0 => matched[i] = 1

\* The trace was released after two updates were delivered, matched and
\* given output for.
C17_Witness ==
    /\ propose_trace = None
    /\ Len(delivered) >= 2
    /\ \A i \in Ids : matched[i] = 1 /\ \E r \in Emitted : r.id = i

\* The step is a round of the operator (and not a step of the arrangement).
RoundStep ==
    \/ delivered' # delivered
    \/ frontier1' # frontier1
    \/ frontier2' # frontier2

IsDistinguish(o) == o.op = "distinguish_since"

\* C18. distinguish_since only moves forward: the frontiers a round passes
\* are the uppers of the batches it drained, the last of them input 2's
\* frontier; none is behind the one passed before it, in the round or in an
\* earlier round; and the round makes these calls before it takes a cursor.
C18_DistinguishForward ==
    [][RoundStep =>
         LET ds == SelectSeq(ops', IsDistinguish)
         IN /\ \A j \in 1..(Len(ds) - 1) : FrontierLeq(ds[j].f, ds[j + 1].f)
            /\ IF ds = <<>>
               THEN distinguish' = distinguish
               ELSE /\ FrontierLeq(distinguish, ds[1].f)
                    /\ distinguish' = ds[Len(ds)].f
                    /\ frontier2' = ds[Len(ds)].f
            /\ \A j \in 1..Len(ops') : \A k \in 1..Len(ops') :
                  (ops'[j].op = "distinguish_since" /\ ops'[k].op = "cursor")
                     => j < k]_vars

\* A round drained two batches, called distinguish_since for each and then
\* processed a bucket.
C18_Witness ==
    /\ Len(SelectSeq(ops, IsDistinguish)) >= 2
    /\ \E k \in 1..Len(ops) : ops[k].op = "cursor"
    /\ output # EmptyBag

\* The frontiers of the inputs, which have moved when input has arrived that
\* the operator has not yet been scheduled for.
TrueFrontier1 == IF pending.set THEN pending.f1 ELSE frontier1

TrueFrontier2 == IF pending.bat.sent THEN pending.bat.upper ELSE frontier2

\* The update i is buffered and its time is closed.
BufferedClosed(i) ==
    i \in Ids /\ InStash(i) /\ ~LessEqual(TrueFrontier2, delivered[i].t)

\* C19. Progress: an update that is buffered at a closed time is eventually
\* matched (or, with diff zero, dropped) and removed from the stash; a
\* capability whose bucket holds only updates at closed times is eventually
\* released; and once input 1 is done and every buffered update is at a
\* closed time the trace is eventually released.
C19_Progress ==
    /\ \A i \in 1..MaxMsgs :
          BufferedClosed(i) ~>
             (/\ i \in Ids
              /\ ~InStash(i)
              /\ matched[i] = 1 \/ delivered[i].d = 0)
    /\ \A c \in Time :
          (c \in DOMAIN stash
           /\ \A j \in 1..Len(stash[c]) : BufferedClosed(stash[c][j].id))
          ~> (c \notin DOMAIN stash)
    /\ (TrueFrontier1 = {} /\ \A i \in Ids : InStash(i) => BufferedClosed(i))
          ~> (propose_trace = None)

\* A batch has arrived that closes the time of a buffered update with a
\* nonzero diff, input 1 is done, and the operator has not yet run.
C19_Witness ==
    /\ pending.set
    /\ propose_trace = Some
    /\ TrueFrontier1 = {}
    /\ \E i \in Ids : BufferedClosed(i) /\ delivered[i].d # 0

\* ---------------------------------------------------------------- C20
\* The updates given for the update i, as a bag.
GivenTo(out, i) ==
    [r \in {x \in BagToSet(out) : x.id = i} |-> CopiesIn(r, out)]

\* What a fresh cursor over the trace, seeking the key of the update e, gives
\* for e under the capability time cap.
FreshCursorGives(ups, cap, e) ==
    SeqToBag(MatchEntry(Storage(ups), NewCursor, cap, e).out)

\* The entries of es are in nondecreasing key order.
InKeyOrder(es) ==
    \A j \in 1..(Len(es) - 1) :
        KeySelector(es[j].p) <= KeySelector(es[j + 1].p)

\* C20. Sequential cursor traversal is lossless: the sort puts a bucket in
\* nondecreasing key order and keeps its entries, and a step that matches an
\* update gives for it, from the one forward-only cursor of its bucket,
\* exactly what a fresh cursor seeking its key would give: every value
\* stored under the key is seen, whatever entries came before it.
C20_CursorLossless ==
    [][/\ \A c \in DOMAIN stash :
             /\ InKeyOrder(SortByKey(stash[c]))
             /\ SeqToBag(SortByKey(stash[c])) = SeqToBag(stash[c])
       /\ \A i \in 1..Len(delivered') :
             MatchedNow(i) =>
               \E cap \in Time :
                  LET fresh == FreshCursorGives(trace', cap, delivered'[i])
                      given == GivenTo(output', i)
                  IN /\ DOMAIN given = DOMAIN fresh
                     /\ \A r \in DOMAIN given : given[r] = fresh[r]]_vars

\* The latest round was the first to find a time closed on input 2: it
\* called distinguish_since, and only the least time is closed.
FirstClosingRound ==
    /\ ops # <<>>
    /\ ops[1].op = "distinguish_since"
    /\ \A t \in Time : ~LessEqual(frontier2, t) <=> t = Bottom

\* Two updates with the same key were matched from one cursor in one round,
\* and each was given a value of that key: the second found the values
\* rewound.
C20_Witness ==
    /\ FirstClosingRound
    /\ \E r1 \in Emitted : \E r2 \in Emitted :
          /\ r1.id < r2.id
          /\ r1.cap = r2.cap
          /\ matched[r1.id] = 1
          /\ matched[r2.id] = 1
          /\ KeySelector(delivered[r1.id].p) = KeySelector(delivered[r2.id].p)

\* Two updates were matched from one cursor in one round; the key of the one
\* visited first is absent from the trace, and the one visited after it was
\* given a value of its own, greater, key.
C20_AfterAbsentKey ==
    /\ FirstClosingRound
    /\ \E r \in Emitted : \E j \in Ids :
          /\ matched[j] = 1
          /\ matched[r.id] = 1
          /\ delivered[j].t = Bottom
          /\ delivered[r.id].t = Bottom
          /\ KeySelector(delivered[j].p) < KeySelector(delivered[r.id].p)
          /\ ~\E u \in trace : u.k = KeySelector(delivered[j].p)

\* An update was given a value from the cursor of a bucket in which an
\* update sorted before it, at a time not closed, was skipped and is still
\* buffered.
C20_AfterSkipped ==
    \E r \in Emitted : \E j \in Ids :
        /\ j < r.id
        /\ InStash(j)
        /\ CapOf(stash, j) = r.cap
        /\ LessEqual(frontier2, delivered[j].t)
        /\ KeySelector(delivered[j].p) <= KeySelector(delivered[r.id].p)

====
